---- MODULE Spec2Model ----
(***************************************************************************)
(* The aggregation pipeline of the AI-Solutions dashboard repository:      *)
(* ai_solutions_sales.py (batch: saves one image per report), dashboard.py *)
(* and main.py (Dash applications with one country-selector callback).     *)
(*                                                                         *)
(* A CSV cell is a string, an integer (Status, Revenue) or a time of day.  *)
(* A time of day "HH:MM:SS" is written <<HH, MM, SS>>; the empty cell of   *)
(* the Time column is <<>>, the empty cell of a string column is NaN.      *)
(* A pandas Series is a sequence, a DataFrame a sequence of records (one   *)
(* per row, one field per column).  A mean is the exact pair [sum, n];     *)
(* n = 0 is the mean of nothing (pandas' NaN).                             *)
(***************************************************************************)
EXTENDS Integers, Sequences, FiniteSets, TLC

VARIABLES
    script,     \* which of the three programs runs
    columns,    \* the column names of df
    df,         \* the rows of the DataFrame read from the CSV, with its derived columns
    pc,         \* the section of the module-level code that runs next
    err,        \* the unhandled exception that ended the run, or "none"
    saved,      \* batch script: the image files written by plt.savefig
    globals,    \* the module namespace: every table and scalar assigned so far
    calls       \* the callback invocations in flight, one per request

vars == <<script, columns, df, pc, err, saved, globals, calls>>

\* ------------------------------------------------------------------ bounds
MaxRows == 2
MaxDemoCount == 1001
NumRequests == 2

\* ------------------------------------------------------------- cell values
NaN == "NaN"
NaT == <<>>

Scripts == {"ai_solutions_sales", "dashboard", "main"}
Dashboards == {"dashboard", "main"}

CsvColumns == {"Time", "URL", "Country", "Status", "Product", "Revenue"}

\* All strings of the model in Python's (lexicographic) sort order.
SortedStrings ==
    <<"AI Assistant", "Gadget", "Job Request", "Other", "Promotional Event",
      "Scheduled Demo", "UK", "USA", "Widget">>

Rank(s) == CHOOSE i \in DOMAIN SortedStrings : SortedStrings[i] = s

\* ------------------------------------------------------- Series operations
Column(d, c) == [i \in DOMAIN d |-> d[i][c]]

Count(s, v) == Cardinality({i \in DOMAIN s : s[i] = v})

RECURSIVE unique(_)
unique(s) ==
    IF s = <<>> THEN <<>>
    ELSE LET r == unique(SubSeq(s, 1, Len(s) - 1))
             l == s[Len(s)]
         IN  IF \E i \in DOMAIN r : r[i] = l THEN r ELSE Append(r, l)

dropna(s, nan) == SelectSeq(s, LAMBDA v : v # nan)

RECURSIVE SumSeq(_)
SumSeq(s) == IF s = <<>> THEN 0 ELSE s[1] + SumSeq(Tail(s))

\* Series.mean(): the exact quotient sum / n; n = 0 is NaN.
mean(s) == [sum |-> SumSeq(s), n |-> Len(s)]

IsNaNMean(m) == m.n = 0

\* x >= y on two means; any comparison with NaN is False.
MeanGE(x, y) ==
    IF IsNaNMean(x) \/ IsNaNMean(y) THEN FALSE
    ELSE x.sum * y.n >= y.sum * x.n

\* The rows of t in descending order of their values val (val[i] is the
\* value of row i), ties in their order in t (a stable sort).
SortDesc(t, val) ==
    LET Before(j) ==
            Cardinality({k \in DOMAIN t :
                \/ val[k] > val[j]
                \/ val[k] = val[j] /\ k < j})
    IN  [i \in DOMAIN t |-> t[CHOOSE j \in DOMAIN t : Before(j) = i - 1]]

\* Series.value_counts() of a Series whose NaN cells were dropped: one row
\* per distinct value, most frequent first, ties in order of first appearance.
value_counts(s) ==
    LET keys == unique(s)
    IN  SortDesc([i \in DOMAIN keys |-> [key |-> keys[i], Count |-> Count(s, keys[i])]],
                 [i \in DOMAIN keys |-> Count(s, keys[i])])

\* The rows of t in ascending order of their keys (key[i] is the key of
\* row i); the keys are distinct.
SortRows(t, key) ==
    [i \in DOMAIN t |->
        t[CHOOSE j \in DOMAIN t :
            Cardinality({k \in DOMAIN t : key[k] < key[j]}) = i - 1]]

\* groupby(col): the distinct non-NaN keys, sorted.
GroupKeys(d, col) ==
    LET keys == unique(dropna(Column(d, col), NaN))
    IN  SortRows(keys, [i \in DOMAIN keys |-> Rank(keys[i])])

\* df[name] = values: the rows of d with one more column.
WithColumn(d, name, values) ==
    [i \in DOMAIN d |->
        [c \in DOMAIN d[i] \cup {name} |-> IF c = name THEN values[i] ELSE d[i][c]]]

\* ---------------------------------------------------------- derived columns
\* pd.to_datetime(..., format='%H:%M:%S') accepts the empty cell (NaT) and a
\* well-formed time of day, and raises ValueError on anything else.
ValidTime(t) ==
    \/ t = NaT
    \/ /\ Len(t) = 3
       /\ t[1] \in 0..23
       /\ t[2] \in 0..59
       /\ t[3] \in 0..59

\* .dt.hour: <<h>> for the hour h, NaT for the empty cell.
Hour(t) == IF t = NaT THEN NaT ELSE <<t[1]>>

RequestTypes ==
    {"AI Assistant", "Scheduled Demo", "Promotional Event", "Job Request", "Other"}

\* RequestType with '/prototype.php' left out of the job pages.
RequestType_NoPrototype(x) ==
    IF x = "/aiassistant.php" THEN "AI Assistant"
    ELSE IF x = "/scheduledemo.php" THEN "Scheduled Demo"
    ELSE IF x = "/event.php" THEN "Promotional Event"
    ELSE IF x = "/job.php" THEN "Job Request"
    ELSE "Other"

RequestType(x) ==
    IF x = "/aiassistant.php" THEN "AI Assistant"
    ELSE IF x = "/scheduledemo.php" THEN "Scheduled Demo"
    ELSE IF x = "/event.php" THEN "Promotional Event"
    ELSE IF x \in {"/job.php", "/prototype.php"} THEN "Job Request"
    ELSE "Other"

job_pages ==
    {"/job.php", "/scheduledemo.php", "/aiassistant.php", "/event.php", "/prototype.php"}

\* ------------------------------------------------------------------ tables
IsSale(r) == r.Revenue > 0

\* RequestsPerHour without sort_index(): the hours in value_counts() order.
RequestsPerHour_Unsorted(d) ==
    LET vc == value_counts(dropna(Column(d, "Hour"), NaT))
    IN  [i \in DOMAIN vc |-> [Hour |-> vc[i].key[1], Count |-> vc[i].Count]]

\* df['Hour'].value_counts().sort_index().reset_index()
RequestsPerHour(d) ==
    LET c == value_counts(dropna(Column(d, "Hour"), NaT))
        vc == SortRows(c, [i \in DOMAIN c |-> c[i].key[1]])
    IN  [i \in DOMAIN vc |-> [Hour |-> vc[i].key[1], Count |-> vc[i].Count]]

JobRows(s, d) ==
    IF s = "main" THEN SelectSeq(d, LAMBDA r : r.RequestType = "Job Request")
    ELSE SelectSeq(d, LAMBDA r : r.URL \in job_pages)

JobCounts(s, d) ==
    LET vc == value_counts(dropna(Column(JobRows(s, d), "URL"), NaN))
    IN  [i \in DOMAIN vc |-> [JobPage |-> vc[i].key, Count |-> vc[i].Count]]

DemoRows(s, d) ==
    IF s = "ai_solutions_sales" THEN SelectSeq(d, LAMBDA r : r.URL = "/scheduledemo.php")
    ELSE SelectSeq(d, LAMBDA r : r.RequestType = "Scheduled Demo")

DemoByCountry(s, d) ==
    LET vc == value_counts(dropna(Column(DemoRows(s, d), "Country"), NaN))
    IN  [i \in DOMAIN vc |-> [Country |-> vc[i].key, DemoRequests |-> vc[i].Count]]

ActionLabels == {"Webinar", "Email Campaign", "Translate Page"}

\* ActionLabel with inclusive thresholds.
ActionLabel_Inclusive(x) ==
    IF x >= 1000 THEN "Webinar"
    ELSE IF x >= 500 THEN "Email Campaign"
    ELSE "Translate Page"

ActionLabel(x) ==
    IF x > 1000 THEN "Webinar"
    ELSE IF x > 500 THEN "Email Campaign"
    ELSE "Translate Page"

WithAction(t) == WithColumn(t, "Action", [i \in DOMAIN t |-> ActionLabel(t[i].DemoRequests)])

\* (main.py names the mean column AvgSaleValue; it is AvgSale here throughout.)
\* The rows the revenue aggregates group: the dashboards keep the sales
\* (Revenue > 0), the batch script groups every row.
RevenueRows(s, d) ==
    IF s = "ai_solutions_sales" THEN d ELSE SelectSeq(d, IsSale)

\* groupby(col) over the rows d: sum, count and mean of Revenue per key.
RevenueBy(d, col) ==
    LET keys == GroupKeys(d, col)
    IN  [i \in DOMAIN keys |->
            LET rev == Column(SelectSeq(d, LAMBDA r : r[col] = keys[i]), "Revenue")
            IN  [key |-> keys[i], TotalRevenue |-> SumSeq(rev),
                 CountSales |-> Len(rev), AvgSale |-> mean(rev)]]

\* Color with a strict comparison: a tie with the average is red.
Color_Strict(x, avg) ==
    IF MeanGE(x, avg) /\ ~MeanGE(avg, x) THEN "green" ELSE "red"

Color(x, avg) == IF MeanGE(x, avg) THEN "green" ELSE "red"

SalesByProduct(s, d, avg) ==
    LET g == RevenueBy(RevenueRows(s, d), "Product")
    IN  IF s = "ai_solutions_sales"
        THEN SortDesc([i \in DOMAIN g |->
                          [Product |-> g[i].key, TotalRevenue |-> g[i].TotalRevenue]],
                      [i \in DOMAIN g |-> g[i].TotalRevenue])
        ELSE IF s = "dashboard"
        THEN [i \in DOMAIN g |->
                 [Product |-> g[i].key, TotalRevenue |-> g[i].TotalRevenue,
                  AvgSale |-> g[i].AvgSale, Color |-> Color(g[i].AvgSale, avg)]]
        ELSE [i \in DOMAIN g |->
                 [Product |-> g[i].key, TotalRevenue |-> g[i].TotalRevenue,
                  CountSales |-> g[i].CountSales, AvgSale |-> g[i].AvgSale,
                  Color |-> Color(g[i].AvgSale, avg)]]

SalesByCountry(s, d) ==
    LET g == RevenueBy(RevenueRows(s, d), "Country")
    IN  IF s = "ai_solutions_sales"
        THEN [i \in DOMAIN g |->
                 [Country |-> g[i].key, TotalRevenue |-> g[i].TotalRevenue]]
        ELSE IF s = "dashboard"
        THEN [i \in DOMAIN g |->
                 [Country |-> g[i].key, TotalRevenue |-> g[i].TotalRevenue,
                  AvgSale |-> g[i].AvgSale]]
        ELSE [i \in DOMAIN g |->
                 [Country |-> g[i].key, TotalRevenue |-> g[i].TotalRevenue,
                  CountSales |-> g[i].CountSales, AvgSale |-> g[i].AvgSale]]

\* df['Status'].value_counts().reset_index(); no Status cell is empty.
StatusCounts(d) ==
    LET vc == value_counts(Column(d, "Status"))
    IN  [i \in DOMAIN vc |-> [Status |-> vc[i].key, Count |-> vc[i].Count]]

\* groupby(['Country', 'RequestType']).size(): one row per observed pair,
\* sorted by country, then by request type; a NaN country has no group.
CrossTab(d) ==
    LET pairs == unique([i \in DOMAIN SelectSeq(d, LAMBDA r : r.Country # NaN) |->
                    <<SelectSeq(d, LAMBDA r : r.Country # NaN)[i].Country,
                      SelectSeq(d, LAMBDA r : r.Country # NaN)[i].RequestType>>])
        sorted == SortRows(pairs, [i \in DOMAIN pairs |->
                      Rank(pairs[i][1]) * (Len(SortedStrings) + 1) + Rank(pairs[i][2])])
    IN  [i \in DOMAIN sorted |->
            [Country |-> sorted[i][1], RequestType |-> sorted[i][2],
             Count |-> Cardinality({k \in DOMAIN d :
                          d[k].Country = sorted[i][1] /\ d[k].RequestType = sorted[i][2]})]]

\* .unstack().fillna(0): one row per country, one cell per request type
\* observed anywhere in the table, 0 where the pair was not observed.
Unstack(t) ==
    LET countries == unique(Column(t, "Country"))
        types == {t[i].RequestType : i \in DOMAIN t}
    IN  [i \in DOMAIN countries |->
            [Country |-> countries[i],
             cells |-> [rt \in types |->
                 IF \E k \in DOMAIN t :
                       t[k].Country = countries[i] /\ t[k].RequestType = rt
                 THEN (CHOOSE r \in {t[k] : k \in DOMAIN t} :
                         r.Country = countries[i] /\ r.RequestType = rt).Count
                 ELSE 0]]]

TypeCountry(s, d) ==
    IF s = "ai_solutions_sales" THEN Unstack(CrossTab(d)) ELSE CrossTab(d)

\* The request types that are columns of the unstacked table.
UnstackedTypes(d) == {CrossTab(d)[i].RequestType : i \in DOMAIN CrossTab(d)}

\* --------------------------------------------------------------- KPI scalars
Sales(d) == SelectSeq(d, IsSale)

avg_sale_value(d) == mean(Column(Sales(d), "Revenue"))

\* The products of the sales, by frequency; idxmax() of it raises ValueError
\* when it is empty and is its first row's product otherwise.
ProductCounts(d) == value_counts(dropna(Column(Sales(d), "Product"), NaN))

top_product(d) == ProductCounts(d)[1].key

\* ------------------------------------------------------------------ inputs
URLs == job_pages \cup {"/index.php"}

Row(t, u, c, st, p, r) ==
    [Time |-> t, URL |-> u, Country |-> c, Status |-> st, Product |-> p, Revenue |-> r]

\* Page views that are no sale, of every page and from two countries.
VisitRows == {Row(<<10, 0, 0>>, u, c, 200, NaN, 0) : u \in URLs, c \in {"USA", "UK"}}

\* Sales, with and without a product; a product row that is no sale; a sale
\* with no country.
SaleRows ==
    {Row(<<10, 30, 0>>, "/aiassistant.php", "USA", 200, p, r) :
        p \in {"Widget", "Gadget", NaN}, r \in {100, 250}}
    \cup {Row(<<10, 30, 0>>, "/aiassistant.php", "USA", 200, "Widget", 0),
          Row(<<10, 30, 0>>, "/aiassistant.php", NaN, 200, "Widget", 100)}

\* Sales at other times of day: midnight, the last second of the day, an
\* empty Time cell and a time that is no time of day.
TimeRows ==
    {Row(t, "/index.php", "UK", 404, "Widget", 100) :
        t \in {<<0, 0, 0>>, <<23, 59, 59>>, NaT, <<24, 0, 0>>}}

Rows == VisitRows \cup SaleRows \cup TimeRows

Tables(rows) == UNION {[1..n -> rows] : n \in 0..MaxRows}

\* The rows of the files whose header lacks a column.
ShapeRows ==
    {Row(<<10, 0, 0>>, "/aiassistant.php", "USA", 200, "Widget", 100),
     Row(<<10, 30, 0>>, "/index.php", "USA", 200, NaN, 0),
     Row(<<25, 0, 0>>, "/index.php", "USA", 200, NaN, 0)}

Project(d, cols) == [i \in DOMAIN d |-> [c \in cols |-> d[i][c]]]

\* ------------------------------------------------------ module-level code
\* The sections of each script's module-level code, in source order.
Program(s) ==
    IF s = "ai_solutions_sales" THEN
        <<"derive", "requests_per_hour", "job_counts", "demo_by_country",
          "type_country", "sales_by_product", "sales_by_country", "sale_histogram">>
    ELSE IF s = "dashboard" THEN
        <<"derive", "metrics", "requests_per_hour", "job_counts", "demo_by_country",
          "demo_action", "sales_by_product", "sales_by_country", "status_counts",
          "type_country", "layout">>
    ELSE
        <<"derive", "metrics", "requests_per_hour", "job_counts", "demo_by_country",
          "sales_by_product", "sales_by_country", "type_country", "status_counts",
          "layout">>

\* The section after sec; after the last one the batch script is done and a
\* dashboard serves its page.
After(s, sec) ==
    LET i == CHOOSE k \in DOMAIN Program(s) : Program(s)[k] = sec
    IN  IF i < Len(Program(s)) THEN Program(s)[i + 1]
        ELSE IF s \in Dashboards THEN "serving" ELSE "done"

Bind(g, name, value) ==
    [n \in DOMAIN g \cup {name} |-> IF n = name THEN value ELSE g[n]]

NoGlobals == [n \in {} |-> 0]

Defined(name) == name \in DOMAIN globals

Batch == script = "ai_solutions_sales"

\* An unhandled exception ends the run where it is raised.
Raise(e) ==
    /\ pc' = "aborted"
    /\ err' = e

\* plt.savefig(name) of the batch script; the dashboards save nothing.
SaveFig(name) == saved' = IF Batch THEN saved \cup {name} ELSE saved

InitRun(cols, rows) ==
    /\ script \in Scripts
    /\ columns = cols
    /\ df \in {Project(d, cols) : d \in Tables(rows)}
    /\ pc = "derive"
    /\ err = "none"
    /\ saved = {}
    /\ globals = NoGlobals
    /\ calls = [r \in 1..NumRequests |-> [pc |-> "idle"]]

\* A well-formed file, or a file whose header lacks one column.
Init ==
    \/ InitRun(CsvColumns, Rows)
    \/ \E c \in CsvColumns : InitRun(CsvColumns \ {c}, ShapeRows)

\* df['Hour'] = ...; df['RequestType'] = ...
Derive ==
    /\ pc = "derive"
    /\ IF "Time" \notin columns THEN
           Raise("KeyError") /\ UNCHANGED <<columns, df>>
       ELSE IF \E i \in DOMAIN df : ~ValidTime(df[i].Time) THEN
           Raise("ValueError") /\ UNCHANGED <<columns, df>>
       ELSE IF "URL" \notin columns THEN
           /\ Raise("KeyError")
           /\ columns' = columns \cup {"Hour"}
           /\ df' = WithColumn(df, "Hour", [i \in DOMAIN df |-> Hour(df[i].Time)])
       ELSE
           /\ columns' = columns \cup {"Hour", "RequestType"}
           /\ df' = WithColumn(WithColumn(df, "Hour", [i \in DOMAIN df |-> Hour(df[i].Time)]),
                               "RequestType", [i \in DOMAIN df |-> RequestType(df[i].URL)])
           /\ pc' = After(script, pc)
           /\ err' = err
    /\ UNCHANGED <<script, saved, globals, calls>>

\* total_requests, total_revenue, avg_sale_value, top_product
Metrics ==
    /\ pc = "metrics"
    /\ IF "Revenue" \notin columns THEN
           Raise("KeyError") /\ globals' = Bind(globals, "total_requests", Len(df))
       ELSE
           LET g == Bind(Bind(Bind(globals, "total_requests", Len(df)),
                              "total_revenue", SumSeq(Column(df, "Revenue"))),
                         "avg_sale_value", avg_sale_value(df))
           IN  IF "Product" \notin columns THEN
                   Raise("KeyError") /\ globals' = g
               ELSE IF ProductCounts(df) = <<>> THEN
                   Raise("ValueError") /\ globals' = g
               ELSE
                   /\ globals' = Bind(g, "top_product", top_product(df))
                   /\ pc' = After(script, pc)
                   /\ err' = err
    /\ UNCHANGED <<script, columns, df, saved, calls>>

\* A section that reads the columns `needs`, assigns `value` to `name` and,
\* in the batch script, saves the figure `png`.
Section(sec, needs, name, value, png) ==
    /\ pc = sec
    /\ IF ~(needs \subseteq columns) THEN
           Raise("KeyError") /\ UNCHANGED <<saved, globals>>
       ELSE
           /\ globals' = Bind(globals, name, value)
           /\ SaveFig(png)
           /\ pc' = After(script, pc)
           /\ err' = err
    /\ UNCHANGED <<script, columns, df, calls>>

DoRequestsPerHour ==
    Section("requests_per_hour", {"Hour"}, "requests_per_hour",
            RequestsPerHour(df), "requests_by_hour.png")

DoJobCounts ==
    Section("job_counts", {"URL"}, "job_counts",
            JobCounts(script, df), "job_requests_pie.png")

DoDemoByCountry ==
    Section("demo_by_country", {"URL", "Country"}, "demo_by_country",
            DemoByCountry(script, df), "demo_requests_by_country.png")

DoSalesByProduct ==
    Section("sales_by_product", {"Product", "Revenue"}, "sales_by_product",
            SalesByProduct(script, df,
                           IF Defined("avg_sale_value") THEN globals.avg_sale_value
                           ELSE mean(<<>>)),
            "revenue_by_product.png")

DoStatusCounts ==
    Section("status_counts", {"Status"}, "status_counts", StatusCounts(df), "")

\* sns.histplot(df[df['Revenue'] > 0]['Revenue']) of the batch script.
DoSaleHistogram ==
    Section("sale_histogram", {"Revenue"}, "sale_amounts",
            Column(Sales(df), "Revenue"), "sales_distribution_hist.png")

\* DataFrame.apply(..., axis=1) of an empty table gives an empty DataFrame, and
\* assigning that to one column raises ValueError or not, by pandas version.
HoverOutcomes(t) == IF t = <<>> THEN {"ok", "ValueError"} ELSE {"ok"}

\* dashboard.py: demo_by_country['Action'] and demo_by_country['hover']
DoDemoAction ==
    /\ pc = "demo_action"
    /\ globals' = Bind(globals, "demo_by_country", WithAction(globals.demo_by_country))
    /\ \E o \in HoverOutcomes(globals.demo_by_country) :
          IF o = "ok" THEN pc' = After(script, pc) /\ err' = err ELSE Raise(o)
    /\ UNCHANGED <<script, columns, df, saved, calls>>

\* sales_by_country, and main.py's sales_by_country['hover_text']
DoSalesByCountry ==
    /\ pc = "sales_by_country"
    /\ IF ~({"Country", "Revenue"} \subseteq columns) THEN
           Raise("KeyError") /\ UNCHANGED <<saved, globals>>
       ELSE
           /\ globals' = Bind(globals, "sales_by_country", SalesByCountry(script, df))
           /\ \E o \in (IF script = "main" THEN HoverOutcomes(SalesByCountry(script, df))
                         ELSE {"ok"}) :
                 IF o = "ok"
                 THEN /\ SaveFig("sales_by_country_pie.png")
                      /\ pc' = After(script, pc)
                      /\ err' = err
                 ELSE Raise(o) /\ saved' = saved
    /\ UNCHANGED <<script, columns, df, calls>>

\* type_country; the batch script then plots its columns 'AI Assistant' and
\* 'Other', a KeyError when one of them is no column of the unstacked table.
DoTypeCountry ==
    /\ pc = "type_country"
    /\ IF "Country" \notin columns THEN
           Raise("KeyError") /\ UNCHANGED <<saved, globals>>
       ELSE
           /\ globals' = Bind(globals, "type_country", TypeCountry(script, df))
           /\ IF Batch /\ ~({"AI Assistant", "Other"} \subseteq UnstackedTypes(df))
              THEN Raise("KeyError: not in index") /\ saved' = saved
              ELSE /\ SaveFig("ai_vs_other_requests.png")
                   /\ pc' = After(script, pc)
                   /\ err' = err
    /\ UNCHANGED <<script, columns, df, calls>>

\* sorted(df['Country'].unique()): NaN (a float) and a string do not compare.
DropdownOptions(d) ==
    LET u == unique(Column(d, "Country"))
    IN  IF \A i \in DOMAIN u : u[i] = NaN THEN u
        ELSE SortRows(u, [i \in DOMAIN u |-> Rank(u[i])])

OptionsRaise(d) ==
    LET u == unique(Column(d, "Country"))
    IN  /\ \E i \in DOMAIN u : u[i] = NaN
        /\ \E i \in DOMAIN u : u[i] # NaN

\* app = Dash(...); app.layout = dbc.Container([...])
DoLayout ==
    /\ pc = "layout"
    /\ IF OptionsRaise(df) THEN
           Raise("TypeError") /\ globals' = Bind(globals, "app", "Dash")
       ELSE
           /\ globals' = Bind(Bind(globals, "app", "Dash"), "layout",
                              [options |-> DropdownOptions(df), value |-> "USA"])
           /\ pc' = After(script, pc)
           /\ err' = err
    /\ UNCHANGED <<script, columns, df, saved, calls>>

NextRun ==
    \/ Derive
    \/ Metrics
    \/ DoRequestsPerHour
    \/ DoJobCounts
    \/ DoDemoByCountry
    \/ DoDemoAction
    \/ DoSalesByProduct
    \/ DoSalesByCountry
    \/ DoStatusCounts
    \/ DoTypeCountry
    \/ DoSaleHistogram
    \/ DoLayout

Spec == Init /\ [][NextRun]_vars

\* ------------------------------------------------- the country callback
\* The values a request can send as the dropdown's value: the countries of
\* the data and one that is in no row.
SelectableCountries == {"USA", "UK", "Atlantis"}

\* FilterCountry keeping the rows of the other countries.
FilterCountry_Others(t, selected_country) ==
    SelectSeq(t, LAMBDA r : r.Country # selected_country)

\* type_country[type_country['Country'] == selected_country]
FilterCountry(t, selected_country) ==
    SelectSeq(t, LAMBDA r : r.Country = selected_country)

\* px.bar(filtered, x='RequestType', y='Count', color='RequestType', title=...)
Figure(filtered, selected_country) ==
    [data |-> [i \in DOMAIN filtered |->
                  [x |-> filtered[i].RequestType, y |-> filtered[i].Count]],
     title |-> selected_country,
     showlegend |-> FALSE]

\* GlobalsAfterFilter of a callback that filters the shared table in place
\* (global type_country; type_country = type_country[...]).
GlobalsAfterFilter_InPlace(g, filtered) == Bind(g, "type_country", filtered)

\* The module namespace after the callback's first statement: `filtered` is
\* a local of the invocation, so the namespace is as it was.
GlobalsAfterFilter(g, filtered) == g

\* A request's invocation starts: filtered = type_country[...]
Filter(r, c) ==
    /\ pc = "serving"
    /\ calls[r].pc \in {"idle", "returned"}
    /\ calls' = [calls EXCEPT ![r] =
           [pc |-> "filtered", selected_country |-> c,
            filtered |-> FilterCountry(globals.type_country, c)]]
    /\ globals' = GlobalsAfterFilter(globals, FilterCountry(globals.type_country, c))
    /\ UNCHANGED <<script, columns, df, pc, err, saved>>

\* fig = px.bar(filtered, ...); fig.update_layout(...); return fig
Return(r) ==
    /\ pc = "serving"
    /\ calls[r].pc = "filtered"
    /\ calls' = [calls EXCEPT ![r] =
           [pc |-> "returned", selected_country |-> calls[r].selected_country,
            fig |-> Figure(calls[r].filtered, calls[r].selected_country)]]
    /\ UNCHANGED <<script, columns, df, pc, err, saved, globals>>

update_request_type_chart ==
    \E r \in 1..NumRequests :
        \/ \E c \in SelectableCountries : Filter(r, c)
        \/ Return(r)

\* The rows of the files the served dashboards are built from.
ServeRows ==
    {Row(<<10, 0, 0>>, "/aiassistant.php", "USA", 200, "Widget", 100),
     Row(<<10, 30, 0>>, "/index.php", "USA", 200, NaN, 0),
     Row(<<11, 0, 0>>, "/scheduledemo.php", "UK", 200, "Gadget", 250),
     Row(<<12, 0, 0>>, "/aiassistant.php", "UK", 200, NaN, 0)}

InitServe == InitRun(CsvColumns, ServeRows)

NextServe == NextRun \/ update_request_type_chart

\* A script runs on a file and, when it is a dashboard, serves requests.
SpecServe == InitServe /\ [][NextServe]_vars

\* ------------------------------------------------ the recommendation label
\* dashboard.py about to label a demo_by_country table of one or two
\* countries, with any counts up to MaxDemoCount; the rows behind the counts
\* are not enumerated.
DemoTables ==
    {<<[Country |-> "USA", DemoRequests |-> n]>> : n \in 1..MaxDemoCount}
    \cup {<<[Country |-> "USA", DemoRequests |-> n], [Country |-> "UK", DemoRequests |-> m]>> :
            n \in MaxDemoCount - 1..MaxDemoCount, m \in {1, 500, 501, 1000}}
    \cup {<<>>}

InitAction ==
    /\ script = "dashboard"
    /\ columns = CsvColumns \cup {"Hour", "RequestType"}
    /\ df = <<>>
    /\ pc = "demo_action"
    /\ err = "none"
    /\ saved = {}
    /\ globals \in {Bind(NoGlobals, "demo_by_country", t) : t \in DemoTables}
    /\ calls = [r \in 1..NumRequests |-> [pc |-> "idle"]]

SpecAction == InitAction /\ [][DoDemoAction]_vars

\* ================================================================== claims
RECURSIVE SumField(_, _)
SumField(t, f) == IF t = <<>> THEN 0 ELSE t[1][f] + SumField(Tail(t), f)

Distinct(t, f) == \A i, j \in DOMAIN t : t[i][f] = t[j][f] => i = j

\* The run read a well-formed file and is past the derived columns.
Derived == CsvColumns \cup {"Hour", "RequestType"} \subseteq columns

\* C1: in each script every row gets exactly one of the five request types,
\* the one its URL maps to ('/aiassistant.php' -> AI Assistant,
\* '/scheduledemo.php' -> Scheduled Demo, '/event.php' -> Promotional Event,
\* '/job.php' and '/prototype.php' -> Job Request, anything else -> Other),
\* and two rows with the same URL get the same type.
C1_Classification ==
    "RequestType" \in columns =>
        \A i \in DOMAIN df :
            LET u == df[i].URL
                l == df[i].RequestType
            IN  /\ l \in RequestTypes
                /\ u = "/aiassistant.php" => l = "AI Assistant"
                /\ u = "/scheduledemo.php" => l = "Scheduled Demo"
                /\ u = "/event.php" => l = "Promotional Event"
                /\ u = "/job.php" => l = "Job Request"
                /\ u = "/prototype.php" => l = "Job Request"
                /\ u \notin {"/aiassistant.php", "/scheduledemo.php", "/event.php",
                              "/job.php", "/prototype.php"} => l = "Other"
                /\ \A j \in DOMAIN df : df[j].URL = u => df[j].RequestType = l

C1_Witness ==
    /\ script = "main"
    /\ "RequestType" \in columns
    /\ \E i, j \in DOMAIN df :
          /\ df[i].URL = "/prototype.php" /\ df[i].RequestType = "Job Request"
          /\ df[j].URL = "/index.php" /\ df[j].RequestType = "Other"

\* C2: in each script job_counts has one row per distinct URL of the five
\* job pages that occurs in the input, and its counts sum to the number of
\* input rows whose URL is one of the five job pages.
C2_JobCounts ==
    Defined("job_counts") =>
        LET t == globals.job_counts
            five == {"/job.php", "/scheduledemo.php", "/aiassistant.php", "/event.php",
                     "/prototype.php"}
        IN  /\ Distinct(t, "JobPage")
            /\ {t[i].JobPage : i \in DOMAIN t} = {df[i].URL : i \in DOMAIN df} \cap five
            /\ SumField(t, "Count") = Cardinality({i \in DOMAIN df : df[i].URL \in five})

\* C3: every row of demo_by_country gets exactly one label, Webinar when its
\* count is above 1000, Email Campaign when it is above 500 and at most 1000,
\* Translate Page when it is at most 500.
C3_ActionLabel ==
    (script = "dashboard" /\ Defined("demo_by_country") /\ pc # "demo_action") =>
        \A i \in DOMAIN globals.demo_by_country :
            LET n == globals.demo_by_country[i].DemoRequests
                a == globals.demo_by_country[i].Action
            IN  /\ a \in {"Webinar", "Email Campaign", "Translate Page"}
                /\ n > 1000 => a = "Webinar"
                /\ (500 < n /\ n <= 1000) => a = "Email Campaign"
                /\ n <= 500 => a = "Translate Page"

C3_Witness ==
    /\ pc # "demo_action"
    /\ Defined("demo_by_country")
    /\ Len(globals.demo_by_country) = 2
    /\ globals.demo_by_country[1].DemoRequests = 1001
    /\ globals.demo_by_country[1].Action = "Webinar"
    /\ globals.demo_by_country[2].DemoRequests = 500
    /\ globals.demo_by_country[2].Action = "Translate Page"

\* The groups of a revenue aggregate are built from sales only, and their
\* totals add up to the revenue of all sales of the input.
RevenueComplete(t, col) ==
    /\ \A i \in DOMAIN t :
          \E k \in DOMAIN df : df[k][col] = t[i][col] /\ df[k].Revenue > 0
    /\ \A i \in DOMAIN t :
          t[i].TotalRevenue =
              SumSeq(Column(SelectSeq(df, LAMBDA r : r[col] = t[i][col] /\ r.Revenue > 0),
                            "Revenue"))
    /\ SumField(t, "TotalRevenue") =
          SumSeq(Column(SelectSeq(df, LAMBDA r : r.Revenue > 0), "Revenue"))

\* C4: revenue by product and revenue by country never include a row with
\* Revenue <= 0, and the per-group totals of each add up to the revenue of
\* all positive-revenue rows, those with an empty Product or Country included.
C4_RevenueAggregates ==
    /\ Defined("sales_by_product") => RevenueComplete(globals.sales_by_product, "Product")
    /\ Defined("sales_by_country") => RevenueComplete(globals.sales_by_country, "Country")

\* C5: a dashboard run on a well-formed file with no positive-revenue row
\* gets past the KPI scalars with avg_sale_value and top_product both set,
\* and does not end in an unhandled error there.
C5_NoSales ==
    (/\ script \in Dashboards
     /\ Derived
     /\ \A i \in DOMAIN df : ~(df[i].Revenue > 0)
     /\ pc # "metrics") =>
        /\ err = "none"
        /\ Defined("avg_sale_value")
        /\ Defined("top_product")

\* The tables and the layout a dashboard builds.
TableNames ==
    {"requests_per_hour", "job_counts", "demo_by_country", "sales_by_product",
     "sales_by_country", "status_counts", "type_country", "layout"}

\* The run ended in a KeyError for a missing column or in to_datetime's ValueError.
ShapeError ==
    /\ pc = "aborted"
    /\ \/ err = "KeyError"
       \/ err = "ValueError" /\ "Hour" \notin columns

\* C6: a missing column or an unparseable timestamp is fatal, and when the
\* error is raised the batch script has saved no image and a dashboard has
\* built no table and no layout.
C6_ShapeErrorsFatal ==
    /\ pc \in {"done", "serving"} => CsvColumns \subseteq columns
    /\ ShapeError => saved = {} /\ DOMAIN globals \cap TableNames = {}

\* The hour histogram apart from the sum of its counts: one row per distinct
\* hour of the input, ascending, every hour in 0..23, no empty bucket.
HourRows(t) ==
    /\ \A i \in DOMAIN t : t[i].Hour \in 0..23 /\ t[i].Count > 0
    /\ \A i, j \in DOMAIN t : i < j => t[i].Hour < t[j].Hour
    /\ {t[i].Hour : i \in DOMAIN t}
          = {df[k].Time[1] : k \in {n \in DOMAIN df : df[n].Time # <<>>}}
    /\ \A i \in DOMAIN t :
          t[i].Count = Cardinality({k \in DOMAIN df :
                           df[k].Time # <<>> /\ df[k].Time[1] = t[i].Hour})

\* C7 as stated: requests_per_hour has one row per distinct hour present in
\* the input, strictly ascending, every hour in 0..23, no hour with zero
\* records, and the counts sum to the number of input rows.
C7_HourHistogram_Original ==
    Defined("requests_per_hour") =>
        /\ HourRows(globals.requests_per_hour)
        /\ SumField(globals.requests_per_hour, "Count") = Len(df)

\* C7 amended: as above, but the counts sum to the number of input rows
\* whose Time cell is not empty (a row with an empty Time has no hour).
C7_HourHistogram ==
    Defined("requests_per_hour") =>
        /\ HourRows(globals.requests_per_hour)
        /\ SumField(globals.requests_per_hour, "Count")
              = Cardinality({k \in DOMAIN df : df[k].Time # <<>>})

C7_Witness ==
    /\ Defined("requests_per_hour")
    /\ Len(df) = 2
    /\ df[1].Time = <<23, 59, 59>>
    /\ df[2].Time = <<0, 0, 0>>
    /\ globals.requests_per_hour = <<[Hour |-> 0, Count |-> 1], [Hour |-> 23, Count |-> 1]>>

\* The (RequestType, Count) pairs of type_country for the country c.
CountryPairs(c) ==
    {<<globals.type_country[i].RequestType, globals.type_country[i].Count>> :
        i \in {k \in DOMAIN globals.type_country : globals.type_country[k].Country = c}}

\* C8: update_request_type_chart returns, without an error, a chart of
\* exactly the rows of type_country for the selected country: of zero rows
\* for a country that is in no row of the data.
C8_CountryChart ==
    \A r \in DOMAIN calls :
        calls[r].pc = "returned" =>
            LET c == calls[r].selected_country
                data == calls[r].fig.data
            IN  /\ err = "none"
                /\ {<<data[i].x, data[i].y>> : i \in DOMAIN data} = CountryPairs(c)
                /\ Len(data) = Cardinality(CountryPairs(c))
                /\ (\A i \in DOMAIN df : df[i].Country # c) => data = <<>>

C8_Witness ==
    /\ calls[1].pc = "returned"
    /\ calls[1].selected_country = "Atlantis"
    /\ calls[1].fig.data = <<>>
    /\ calls[2].pc = "returned"
    /\ calls[2].selected_country = "USA"
    /\ Len(calls[2].fig.data) = 2

\* C9: while the page is served, no step of any invocation, in any
\* interleaving, changes type_country or df (or anything else of the module
\* namespace), and two results for the same selected_country are equal.
C9_CallbackPure ==
    [][pc = "serving" =>
          /\ globals' = globals
          /\ df' = df
          /\ \A r1, r2 \in DOMAIN calls :
                (/\ calls'[r1].pc = "returned"
                 /\ calls'[r2].pc = "returned"
                 /\ calls'[r1].selected_country = calls'[r2].selected_country)
                    => calls'[r1].fig = calls'[r2].fig]_vars

C9_Witness ==
    /\ pc = "serving"
    /\ calls[1].pc = "filtered"
    /\ calls[1].selected_country = "UK"
    /\ calls[1].filtered # <<>>
    /\ calls[2].pc = "returned"
    /\ calls[2].selected_country = "USA"
    /\ calls[2].fig.data # <<>>

\* The keys of a table with their counts or sums.
KeyValues(t, key, val) == {<<t[i][key], t[i][val]>> : i \in DOMAIN t}

\* The (country, request type, count) cells of type_country, of either shape.
Cells(s, t) ==
    IF s = "ai_solutions_sales"
    THEN UNION {{<<t[i].Country, rt, t[i].cells[rt]>> : rt \in DOMAIN t[i].cells} :
                   i \in DOMAIN t}
    ELSE {<<t[i].Country, t[i].RequestType, t[i].Count>> : i \in DOMAIN t}

\* C10: on the same input the three scripts compute the same keys with the
\* same counts and sums for every report they share: each table of the
\* running script is the one every other script computes from the same rows.
C10_SameTables ==
    \A s \in Scripts :
        /\ Defined("requests_per_hour") =>
              globals.requests_per_hour = RequestsPerHour(df)
        /\ Defined("job_counts") =>
              KeyValues(globals.job_counts, "JobPage", "Count")
                  = KeyValues(JobCounts(s, df), "JobPage", "Count")
        /\ Defined("demo_by_country") =>
              KeyValues(globals.demo_by_country, "Country", "DemoRequests")
                  = KeyValues(DemoByCountry(s, df), "Country", "DemoRequests")
        /\ Defined("sales_by_product") =>
              KeyValues(globals.sales_by_product, "Product", "TotalRevenue")
                  = KeyValues(SalesByProduct(s, df, mean(<<>>)), "Product", "TotalRevenue")
        /\ Defined("sales_by_country") =>
              KeyValues(globals.sales_by_country, "Country", "TotalRevenue")
                  = KeyValues(SalesByCountry(s, df), "Country", "TotalRevenue")
        /\ Defined("type_country") =>
              Cells(script, globals.type_country) = Cells(s, TypeCountry(s, df))

\* The positive-revenue rows of the input, and those of the product p.
SaleRevenue == Column(SelectSeq(df, LAMBDA r : r.Revenue > 0), "Revenue")

ProductRevenue(p) ==
    Column(SelectSeq(df, LAMBDA r : r.Revenue > 0 /\ r.Product = p), "Revenue")

====
